---- MODULE Spec2Model ----
(***************************************************************************)
(* Model of app/api.py: the lifespan that fills and clears the global      *)
(* model_wrappers_list, the three endpoints and the construct_response     *)
(* decorator.                                                              *)
(*                                                                         *)
(* Python values are modelled as follows.  A dict is a record; a key with  *)
(* a hyphen is reached as r["status-code"].  A float is an integer number  *)
(* of millimetres.  None is the record NoneVal.  An exception leaving a    *)
(* handler is the record [exception |-> <class name>].  request.url._url   *)
(* is the path of the URL as a sequence of segments.                       *)
(***************************************************************************)
EXTENDS Integers, Sequences, FiniteSets, TLC

(***************************************************************************)
(* Bounds of the model.                                                    *)
(***************************************************************************)
\* largest number of entries MODELS_DIR.iterdir() yields
MaxFiles == 2
\* largest number of times the lifespan is entered in one process
MaxCycles == 2

\* the float values a payload field is drawn from (mm): 1.4 cm and 5.1 cm
FeatureVals == {14, 51}
\* the instants datetime.now() may return (no claim compares two timestamps,
\* so one instant stands for the clock)
Instants == {"2021-11-01T10:00:00"}

VARIABLES
    phase,                \* "idle" | "loading" | "serving" | "aborted" | "stopped"
    dir,                  \* the entries MODELS_DIR.iterdir() yielded in this cycle
    i,                    \* position of the load loop in model_paths (1-based)
    model_wrappers_list,  \* the global registry
    request,              \* the last request handled in this cycle
    results,              \* the raw result of the last handler call
    response,             \* what the decorated handler returned for it
    cycles,               \* number of times the lifespan was entered
    first                 \* observer: one earlier predict exchange of this cycle

vars == <<phase, dir, i, model_wrappers_list, request, results, response, cycles, first>>

NoneVal == [py |-> "None"]

(***************************************************************************)
(* http.HTTPStatus                                                         *)
(***************************************************************************)
HTTPStatus_OK == 200
HTTPStatus_OK_phrase == "OK"
HTTPStatus_BAD_REQUEST == 400

(***************************************************************************)
(* The files MODELS_DIR may hold.  A file is a name, a suffix and what     *)
(* pickle.load makes of its content: a model wrapper, or an exception.     *)
(***************************************************************************)
WrapperTreeA ==
    [type |-> "tree", model |-> "treeA",
     params |-> [max_depth |-> 2], metrics |-> [accuracy |-> 95]]

\* a second bundle of the same type, holding a different classifier
WrapperTreeB ==
    [type |-> "tree", model |-> "treeB",
     params |-> [max_depth |-> 1], metrics |-> [accuracy |-> 66]]

\* a classifier that was fitted on four classes
WrapperSvc ==
    [type |-> "svc", model |-> "svc4",
     params |-> [C |-> 1], metrics |-> [accuracy |-> 90]]

Files ==
    { [name |-> "tree",   suffix |-> ".pkl", content |-> WrapperTreeA],
      [name |-> "tree2",  suffix |-> ".pkl", content |-> WrapperTreeB],
      [name |-> "svc",    suffix |-> ".pkl", content |-> WrapperSvc],
      [name |-> "bad",    suffix |-> ".pkl", content |-> [exception |-> "UnpicklingError"]],
      [name |-> "README", suffix |-> ".md",  content |-> [exception |-> "UnpicklingError"]] }

\* the listings of a directory: up to MaxFiles distinct files, in any order
Dirs ==
    { d \in UNION { [1..n -> Files] : n \in 0..MaxFiles } :
        \A a, b \in 1..Len(d) : a # b => d[a] # d[b] }

\* the model types a client may put in the URL; "knn" is never loaded
Types == {"tree", "svc", "knn"}

Payloads ==
    [sepal_length : FeatureVals, sepal_width : FeatureVals,
     petal_length : FeatureVals, petal_width : FeatureVals]

(***************************************************************************)
(* app.schemas.IrisType and the classifiers' predict.                      *)
(***************************************************************************)
IrisTypeValues == {0, 1, 2}

\* IrisType(value).name; Enum raises ValueError for a value that is no member
IrisType(value) ==
    IF value \notin IrisTypeValues THEN [exception |-> "ValueError"]
    ELSE [name |-> CASE value = 0 -> "setosa"
                     [] value = 1 -> "versicolor"
                     [] value = 2 -> "virginica"]

\* model.predict(features): one class index per row of the 2D array features;
\* a row is [sepal_length, sepal_width, petal_length, petal_width]
PredictRow(model, row) ==
    CASE model = "treeA" ->
           IF row[3] <= 25 THEN 0 ELSE IF row[4] <= 17 THEN 1 ELSE 2
      [] model = "treeB" ->
           IF row[1] <= 25 THEN 2 ELSE 0
      [] model = "svc4" ->
           IF row[2] <= 25 THEN (IF row[3] <= 25 THEN 0 ELSE 1)
           ELSE (IF row[4] <= 25 THEN 2 ELSE 3)

predict(model, features) ==
    [r \in 1..Len(features) |-> PredictRow(model, features[r])]

(***************************************************************************)
(* lifespan                                                                *)
(***************************************************************************)
\* [filename for filename in MODELS_DIR.iterdir() if filename.suffix == ".pkl"]
model_paths(d) == SelectSeq(d, LAMBDA filename : filename.suffix = ".pkl")

\* pickle.load(file)
pickle_load(file) == file.content

IsException(v) == "exception" \in DOMAIN v

Init ==
    /\ phase = "idle"
    /\ dir = <<>>
    /\ i = 1
    /\ model_wrappers_list = <<>>
    /\ request = NoneVal
    /\ results = NoneVal
    /\ response = NoneVal
    /\ cycles = 0
    /\ first = NoneVal

\* the lifespan context is entered: the directory is listed
LifespanEnter ==
    /\ phase \in {"idle", "stopped", "aborted"}
    /\ cycles < MaxCycles
    /\ \E d \in Dirs : dir' = d
    /\ i' = 1
    /\ phase' = "loading"
    /\ cycles' = cycles + 1
    \* no request of this cycle has been handled yet
    /\ request' = NoneVal
    /\ results' = NoneVal
    /\ response' = NoneVal
    /\ first' = NoneVal
    /\ UNCHANGED model_wrappers_list

\* LoadStep with the exception of pickle.load swallowed: the loop goes on to
\* the next path
LoadStepSkip ==
    /\ phase = "loading"
    /\ i <= Len(model_paths(dir))
    /\ LET model_wrapper == pickle_load(model_paths(dir)[i])
       IN /\ model_wrappers_list' =
                IF IsException(model_wrapper) THEN model_wrappers_list
                ELSE Append(model_wrappers_list, model_wrapper)
          /\ i' = i + 1
    /\ UNCHANGED <<phase, dir, request, results, response, cycles, first>>

\* one iteration of `for path in model_paths`
LoadStep ==
    /\ phase = "loading"
    /\ i <= Len(model_paths(dir))
    /\ LET model_wrapper == pickle_load(model_paths(dir)[i])
       IN IF IsException(model_wrapper)
          THEN \* the exception leaves lifespan: startup fails, line 39 is not run
               /\ phase' = "aborted"
               /\ UNCHANGED <<i, model_wrappers_list>>
          ELSE /\ model_wrappers_list' = Append(model_wrappers_list, model_wrapper)
               /\ i' = i + 1
               /\ UNCHANGED phase
    /\ UNCHANGED <<dir, request, results, response, cycles, first>>

\* the loop is over and lifespan yields: the application starts serving
LifespanYield ==
    /\ phase = "loading"
    /\ i > Len(model_paths(dir))
    /\ phase' = "serving"
    /\ UNCHANGED <<dir, i, model_wrappers_list, request, results, response, cycles, first>>

\* the code after the yield
LifespanExit ==
    /\ phase = "serving"
    /\ model_wrappers_list' = <<>>
    /\ phase' = "stopped"
    /\ UNCHANGED <<dir, i, request, results, response, cycles, first>>

(***************************************************************************)
(* The endpoints.  A request is the starlette Request (method, url) and,   *)
(* for POST /models/{type}, the path parameter and the validated payload.  *)
(***************************************************************************)
\* next_match returning the last bundle of the type instead of the first
RECURSIVE last_match(_, _, _)
last_match(list, type, k) ==
    IF k > Len(list) THEN NoneVal
    ELSE LET later == last_match(list, type, k + 1)
         IN IF later # NoneVal THEN later
            ELSE IF list[k].type = type THEN list[k] ELSE NoneVal

\* the first bundle of the list, from position k on, whose type is the one
\* asked for: next((m for m in model_wrappers_list if m["type"] == type), None)
RECURSIVE next_match(_, _, _)
next_match(list, type, k) ==
    IF k > Len(list) THEN NoneVal
    ELSE IF list[k].type = type THEN list[k]
    ELSE next_match(list, type, k + 1)

\* (the welcome text is written without the back quotes around /docs)
_index(req) ==
    [message |-> HTTPStatus_OK_phrase,
     data |-> [message |-> "Welcome to IRIS classifier! Please, read the /docs!"]]
    @@ ("status-code" :> HTTPStatus_OK)

\* _get_models_list handing out the wrappers themselves
_get_models_list_raw(req) ==
    [message |-> HTTPStatus_OK_phrase, data |-> model_wrappers_list]
    @@ ("status-code" :> HTTPStatus_OK)

_get_models_list(req) ==
    LET available_models ==
            [k \in 1..Len(model_wrappers_list) |->
                [type |-> model_wrappers_list[k].type,
                 parameters |-> model_wrappers_list[k].params,
                 accuracy |-> model_wrappers_list[k].metrics]]
    IN [message |-> HTTPStatus_OK_phrase, data |-> available_models]
       @@ ("status-code" :> HTTPStatus_OK)

\* features_of with the petal measures put before the sepal measures
features_petal_first(payload) ==
    << <<payload.petal_length, payload.petal_width,
         payload.sepal_length, payload.sepal_width>> >>

\* lines 119-126: the 2D array of one row handed to predict
features_of(payload) ==
    << <<payload.sepal_length, payload.sepal_width,
         payload.petal_length, payload.petal_width>> >>

\* found_response giving the class index as text where the label belongs
found_response_index_label(model_wrapper, payload, prediction, predicted_type) ==
    [message |-> HTTPStatus_OK_phrase,
     data |-> [features |-> [sepal_length |-> payload.sepal_length,
                             sepal_width |-> payload.sepal_width,
                             petal_length |-> payload.petal_length,
                             petal_width |-> payload.petal_width],
               prediction |-> prediction,
               predicted_type |-> ToString(prediction)]
              @@ ("model-type" :> model_wrapper.type)]
    @@ ("status-code" :> HTTPStatus_OK)

\* lines 135-149: the raw result when a bundle was found
found_response(model_wrapper, payload, prediction, predicted_type) ==
    [message |-> HTTPStatus_OK_phrase,
     data |-> [features |-> [sepal_length |-> payload.sepal_length,
                             sepal_width |-> payload.sepal_width,
                             petal_length |-> payload.petal_length,
                             petal_width |-> payload.petal_width],
               prediction |-> prediction,
               predicted_type |-> predicted_type]
              @@ ("model-type" :> model_wrapper.type)]
    @@ ("status-code" :> HTTPStatus_OK)

\* not_found_response carrying an empty data field
not_found_with_data ==
    [message |-> "Model not found", data |-> NoneVal]
    @@ ("status-code" :> HTTPStatus_BAD_REQUEST)

\* lines 151-154: the raw result when no bundle was found
not_found_response ==
    [message |-> "Model not found"] @@ ("status-code" :> HTTPStatus_BAD_REQUEST)

\* a model wrapper is a non-empty dict, hence true; None is false
_predict(req, type, payload) ==
    LET features == features_of(payload)
        model_wrapper == next_match(model_wrappers_list, type, 1)
    IN IF model_wrapper # NoneVal
       THEN LET prediction == predict(model_wrapper.model, features)[1]
                predicted_type == IrisType(prediction)
            IN IF IsException(predicted_type) THEN predicted_type
               ELSE found_response(model_wrapper, payload, prediction,
                                   predicted_type.name)
       ELSE not_found_response

\* construct_response setting data in every envelope (results.get("data"))
construct_response_always_data(res, req, now) ==
    IF IsException(res) THEN res
    ELSE [message |-> res.message,
          method |-> req.method,
          timestamp |-> now,
          url |-> req.url,
          data |-> IF "data" \in DOMAIN res THEN res.data ELSE NoneVal]
         @@ ("status-code" :> res["status-code"])

\* wrap(request, ...) of construct_response, given what f returned or raised
\* and what datetime.now().isoformat() gives
construct_response(res, req, now) ==
    IF IsException(res) THEN res
    ELSE LET resp == [message |-> res.message,
                      method |-> req.method,
                      timestamp |-> now,
                      url |-> req.url]
                     @@ ("status-code" :> res["status-code"])
         IN IF "data" \in DOMAIN res THEN resp @@ [data |-> res.data] ELSE resp

\* the observer's note of what was handled since it kept an exchange: "kept"
\* nothing yet, "other" a different request, "again" the kept request once more
\* after a different one
Observed(req) ==
    IF first = NoneVal THEN first
    ELSE IF req # first.request
         THEN [first EXCEPT !.since = IF @ = "kept" THEN "other" ELSE @]
         ELSE [first EXCEPT !.since = IF @ = "other" THEN "again" ELSE @]

\* the exchange the server records for a call of the decorated handler
Handle(req, res, now) ==
    /\ request' = req
    /\ results' = res
    /\ response' = construct_response(res, req, now)
    /\ first' = Observed(req)

\* GET /
GetIndex ==
    /\ phase = "serving"
    /\ \E now \in Instants :
         LET req == [method |-> "GET", url |-> <<>>]
         IN Handle(req, _index(req), now)
    /\ UNCHANGED <<phase, dir, i, model_wrappers_list, cycles>>

\* GetModelsList emptying the registry while it lists it
GetModelsListDrain ==
    /\ phase = "serving"
    /\ \E now \in Instants :
         LET req == [method |-> "GET", url |-> <<"models">>]
         IN Handle(req, _get_models_list(req), now)
    /\ model_wrappers_list' = <<>>
    /\ UNCHANGED <<phase, dir, i, cycles>>

\* GET /models
GetModelsList ==
    /\ phase = "serving"
    /\ \E now \in Instants :
         LET req == [method |-> "GET", url |-> <<"models">>]
         IN Handle(req, _get_models_list(req), now)
    /\ UNCHANGED <<phase, dir, i, model_wrappers_list, cycles>>

\* PostPredict taking the bundles of the requested type out of the registry
PostPredictEvict ==
    /\ phase = "serving"
    /\ \E now \in Instants, type \in Types, payload \in Payloads :
         LET req == [method |-> "POST", url |-> <<"models", type>>,
                     type |-> type, payload |-> payload]
         IN /\ Handle(req, _predict(req, type, payload), now)
            /\ model_wrappers_list' =
                 SelectSeq(model_wrappers_list, LAMBDA m : m.type # type)
    /\ UNCHANGED <<phase, dir, i, cycles>>

\* POST /models/{type}
PostPredict ==
    /\ phase = "serving"
    /\ \E now \in Instants, type \in Types, payload \in Payloads :
         LET req == [method |-> "POST", url |-> <<"models", type>>,
                     type |-> type, payload |-> payload]
         IN Handle(req, _predict(req, type, payload), now)
    /\ UNCHANGED <<phase, dir, i, model_wrappers_list, cycles>>

\* observer of SpecRepeat: keeps one predict exchange of the serving phase to
\* compare a later repetition of the same request with
Remember ==
    /\ phase = "serving"
    /\ request # NoneVal
    /\ request.method = "POST"
    /\ first = NoneVal
    /\ first' = [request |-> request, response |-> response, since |-> "kept"]
    /\ UNCHANGED <<phase, dir, i, model_wrappers_list, request, results, response, cycles>>

\* the first entry of the lifespan in a process
ProcessStart ==
    /\ cycles = 0
    /\ LifespanEnter

Next ==
    \/ LifespanEnter
    \/ LoadStep
    \/ LifespanYield
    \/ LifespanExit
    \/ GetIndex
    \/ GetModelsList
    \/ PostPredict

Spec == Init /\ [][Next]_vars

\* one run of the lifespan, observed by Remember
NextRepeat ==
    \/ ProcessStart
    \/ LoadStep
    \/ LifespanYield
    \/ LifespanExit
    \/ GetIndex
    \/ GetModelsList
    \/ PostPredict
    \/ Remember

SpecRepeat == Init /\ [][NextRepeat]_vars

(***************************************************************************)
(* Vocabulary of the properties.                                           *)
(***************************************************************************)
Handled == request # NoneVal

PredictHandled == Handled /\ request.method = "POST"

ModelsListHandled == Handled /\ request.method = "GET" /\ request.url = <<"models">>

\* the positions of the registry whose bundle has the type asked for
Matching(type) ==
    {k \in 1..Len(model_wrappers_list) : model_wrappers_list[k].type = type}

IsEnvelope(r) == "status-code" \in DOMAIN r

IrisLabels == {"setosa", "versicolor", "virginica"}

\* the class index the model of the bundle at position k gives for the
\* payload of the request
ClassIndex(k) ==
    predict(model_wrappers_list[k].model,
            << <<request.payload.sepal_length, request.payload.sepal_width,
                 request.payload.petal_length, request.payload.petal_width>> >>)[1]

\* the bundles of the .pkl files of the listed directory, in listing order
BundlesOfDir ==
    LET paths == SelectSeq(dir, LAMBDA f : f.suffix = ".pkl")
    IN [k \in 1..Len(paths) |-> paths[k].content]

(***************************************************************************)
(* C1: a POST predict whose type matches no bundle of the registry is      *)
(* answered with status 400, message "Model not found" and no data field.  *)
(***************************************************************************)
C1_NotFound ==
    (phase = "serving" /\ PredictHandled /\ Matching(request.type) = {})
        => /\ IsEnvelope(response)
           /\ response["status-code"] = 400
           /\ response.message = "Model not found"
           /\ "data" \notin DOMAIN response

C1_Witness ==
    /\ phase = "serving"
    /\ PredictHandled
    /\ model_wrappers_list # <<>>
    /\ Matching(request.type) = {}
    /\ IsEnvelope(response)

(***************************************************************************)
(* C2 as claimed: a POST predict whose type is in the registry is answered *)
(* with status OK and a predicted_type of the species enumeration,         *)
(* whatever class index the model returns.                                 *)
(***************************************************************************)
C2_AlwaysLabel ==
    (phase = "serving" /\ PredictHandled /\ Matching(request.type) # {})
        => /\ IsEnvelope(response)
           /\ response["status-code"] = 200
           /\ response.data.predicted_type \in IrisLabels

(***************************************************************************)
(* C2 amended: a POST predict whose type is in the registry is answered    *)
(* with status OK and a predicted_type of the species enumeration when the *)
(* class index the model returns is a value of the enumeration; for any    *)
(* other class index the enumeration lookup raises ValueError and no       *)
(* envelope is returned.                                                   *)
(***************************************************************************)
C2_LabelWhenIndexInEnum ==
    (phase = "serving" /\ PredictHandled /\ Matching(request.type) # {})
        => \E k \in Matching(request.type) :
             /\ \A j \in Matching(request.type) : k <= j
             /\ IF ClassIndex(k) \in {0, 1, 2}
                THEN /\ IsEnvelope(response)
                     /\ response["status-code"] = 200
                     /\ response.data.predicted_type \in IrisLabels
                ELSE response = [exception |-> "ValueError"]

C2_Witness ==
    /\ phase = "serving"
    /\ PredictHandled
    /\ Matching(request.type) # {}
    /\ IsEnvelope(response)
    /\ response.data.predicted_type = "virginica"

(***************************************************************************)
(* C3: on a successful POST predict for type T with payload P, the data    *)
(* carry T as model-type, the four fields of P as features, as prediction  *)
(* the class index a bundle of type T gives for the vector [sepal_length,  *)
(* sepal_width, petal_length, petal_width], and as predicted_type the      *)
(* label of that index.                                                    *)
(***************************************************************************)
C3_PredictionData ==
    (phase = "serving" /\ PredictHandled /\ IsEnvelope(response)
       /\ response["status-code"] = 200)
        => /\ response.data["model-type"] = request.type
           /\ response.data.features = request.payload
           /\ \E k \in Matching(request.type) :
                /\ response.data.prediction = ClassIndex(k)
                /\ response.data.predicted_type = IrisType(ClassIndex(k)).name

C3_Witness ==
    /\ phase = "serving"
    /\ PredictHandled
    /\ IsEnvelope(response)
    /\ response["status-code"] = 200
    /\ request.payload.sepal_length # request.payload.petal_length
    /\ response.data.prediction = 1

(***************************************************************************)
(* C4: GET models list is answered with status OK and, as data, one entry  *)
(* {type, parameters, accuracy} per bundle of the registry, in registry    *)
(* order, without the model object; an empty registry gives an empty list. *)
(***************************************************************************)
C4_ModelsList ==
    (phase = "serving" /\ ModelsListHandled)
        => /\ IsEnvelope(response)
           /\ response["status-code"] = 200
           /\ "data" \in DOMAIN response
           /\ Len(response.data) = Len(model_wrappers_list)
           /\ \A k \in 1..Len(model_wrappers_list) :
                /\ DOMAIN response.data[k] = {"type", "parameters", "accuracy"}
                /\ response.data[k].type = model_wrappers_list[k].type
                /\ response.data[k].parameters = model_wrappers_list[k].params
                /\ response.data[k].accuracy = model_wrappers_list[k].metrics
           /\ (model_wrappers_list = <<>> => response.data = <<>>)

C4_Witness ==
    /\ phase = "serving"
    /\ ModelsListHandled
    /\ Len(model_wrappers_list) = 2
    /\ model_wrappers_list[1].type # model_wrappers_list[2].type
    /\ Len(response.data) = 2

(***************************************************************************)
(* C5: no step taken while the application is serving changes the          *)
(* registry.                                                               *)
(***************************************************************************)
C5_RegistryReadOnly ==
    [][(phase = "serving" /\ phase' = "serving")
         => model_wrappers_list' = model_wrappers_list]_vars

C5_Witness ==
    /\ phase = "serving"
    /\ PredictHandled
    /\ Len(model_wrappers_list) = 2
    /\ model_wrappers_list = BundlesOfDir

Outcome(r) ==
    IF IsEnvelope(r)
    THEN IF "data" \in DOMAIN r
         THEN <<r["status-code"], r.data.prediction, r.data.predicted_type>>
         ELSE <<r["status-code"]>>
    ELSE <<r.exception>>

C7_Repeatable ==
    (phase = "serving" /\ first # NoneVal /\ request = first.request)
        => Outcome(response) = Outcome(first.response)

C7_Witness ==
    /\ phase = "serving"
    /\ first # NoneVal
    /\ first.since = "again"
    /\ request = first.request
    /\ IsEnvelope(response)
    /\ "data" \in DOMAIN response

(***************************************************************************)
(* C8: the bundle used for a POST predict is the first bundle of the       *)
(* registry, in load order, whose type is the requested one; when no       *)
(* bundle has that type the handler takes the not-found branch; the lookup *)
(* raises for no type and no registry.                                     *)
(***************************************************************************)
C8_FirstMatch ==
    (phase = "serving" /\ PredictHandled)
        => IF Matching(request.type) = {}
           THEN results = [message |-> "Model not found"] @@ ("status-code" :> 400)
           ELSE \E k \in Matching(request.type) :
                  /\ \A j \in 1..(k - 1) : model_wrappers_list[j].type # request.type
                  /\ \/ /\ IsEnvelope(results)
                        /\ results.data.prediction = ClassIndex(k)
                     \/ /\ results = [exception |-> "ValueError"]
                        /\ ClassIndex(k) \notin {0, 1, 2}

C8_Witness ==
    /\ phase = "serving"
    /\ PredictHandled
    /\ \E k1, k2 \in Matching(request.type) :
         /\ k1 < k2
         /\ \A j \in Matching(request.type) : k1 <= j
         /\ ClassIndex(k1) # ClassIndex(k2)
         /\ IsEnvelope(results)
         /\ results.data.prediction = ClassIndex(k1)

(***************************************************************************)
(* C9: a request is handled only after the load loop has appended the      *)
(* bundle of every .pkl file of the directory; a cycle in which a file     *)
(* cannot be deserialized is aborted and handles no request.               *)
(***************************************************************************)
C9_ServeAfterFullLoad ==
    /\ Handled => phase \in {"serving", "stopped"}
    /\ phase \in {"serving", "stopped"}
         => \A k \in 1..Len(dir) :
              dir[k].suffix = ".pkl" => ~IsException(dir[k].content)
    /\ phase = "serving"
         => /\ Len(model_wrappers_list) >= Len(BundlesOfDir)
            /\ SubSeq(model_wrappers_list,
                      Len(model_wrappers_list) - Len(BundlesOfDir) + 1,
                      Len(model_wrappers_list)) = BundlesOfDir
    /\ phase = "aborted"
         => /\ ~Handled
            /\ \E k \in 1..Len(dir) :
                 dir[k].suffix = ".pkl" /\ IsException(dir[k].content)

C9_Witness ==
    /\ phase = "serving"
    /\ Handled
    /\ Len(BundlesOfDir) = 2
    /\ Len(dir) = 2

(***************************************************************************)
(* C10 as claimed: teardown leaves the registry empty, and in every        *)
(* serving phase of every cycle, also after cycles whose load was aborted, *)
(* the registry holds exactly one entry per .pkl file of the directory.    *)
(***************************************************************************)
C10_NoAccumulation ==
    /\ phase = "stopped" => model_wrappers_list = <<>>
    /\ phase = "serving" => model_wrappers_list = BundlesOfDir

====
